---- MODULE Spec2Model ----
(***************************************************************************)
(* A model of src/plonk.rs: the routing targets, the PartialWitness, the   *)
(* public-input addressing, the CircuitBuilder with its arithmetic gadgets *)
(* and the RoutingTargetPartitions union structure.                        *)
(***************************************************************************)
EXTENDS Integers, Naturals, Sequences, FiniteSets, TLC

VARIABLES
    builder,      \* the CircuitBuilder
    last,         \* the last builder call: its name, arguments, result and the builder before it
    rtp,          \* a RoutingTargetPartitions value
    declared,     \* the pairs of targets connected by a chain of the merges applied to rtp so far
    pw,           \* a PartialWitness
    first_value,  \* for every target of pw, the first value assigned to it
    debug_build,  \* whether debug assertions are compiled in
    panicked,     \* "" while the program runs, else the message of the panic that ended it
    public_input  \* the PublicInput last staged and the target computed for it

vars == <<builder, last, rtp, declared, pw, first_value, debug_build, panicked, public_input>>

----------------------------------------------------------------------------
(* Bounds of the model. *)

MaxPartitionTargets == 4
MaxWitnessTargets == 2
MaxPublicInputs == 24

----------------------------------------------------------------------------
(* Program constants. *)

NUM_WIRES == 11
NUM_ROUTED_WIRES == 6
NUM_CONSTANTS == 5

----------------------------------------------------------------------------
(* Targets. *)

None == <<"None">>

VirtualTarget(index) == <<"VirtualTarget", index>>

Wire(gate, input) == <<"Wire", gate, input>>

IsWire(target) == target[1] = "Wire"

Range(s) == {s[i] : i \in DOMAIN s}

(* The value of Op at value, with value computed once. *)
Bind(value, Op(_)) == CHOOSE r \in {Op(v) : v \in {value}} : TRUE

----------------------------------------------------------------------------
(* PartialWitness.                                                         *)

PartialWitness_new == [wire_values |-> <<>>]

(* HashMap::insert replaces the value of a present key and returns the old *)
(* one; the debug_assert! on it exists in builds with debug assertions     *)
(* only.                                                                   *)
set_target(witness, target, value, debug_assertions) ==
    LET old_value_is_none == target \notin DOMAIN witness.wire_values
        inserted == [wire_values |-> (target :> value) @@ witness.wire_values]
    IN  [witness |-> inserted,
         panic |-> IF debug_assertions /\ ~old_value_is_none
                   THEN "Target was set twice" ELSE ""]

set_wire(witness, wire, value, debug_assertions) ==
    set_target(witness, wire, value, debug_assertions)

----------------------------------------------------------------------------
(* PublicInput.                                                            *)

original_wire(pi) == Wire((pi.index \div NUM_WIRES) * 2, pi.index % NUM_WIRES)

routable_target(pi) ==
    LET wire == original_wire(pi)
    IN  IF wire[3] > NUM_ROUTED_WIRES
        THEN Wire(wire[2] + 1, wire[3] - NUM_ROUTED_WIRES)
        ELSE wire

----------------------------------------------------------------------------
(* RoutingTargetPartitions.  Class ids are the 0-based positions of the     *)
(* member lists, so the list of class id k is partitions[k + 1].           *)

RoutingTargetPartitions_new == [partitions |-> <<>>, indices |-> <<>>]

Registered(r) == DOMAIN r.indices

add_partition(r, target) ==
    LET index == Len(r.partitions)
    IN  [partitions |-> Append(r.partitions, <<target>>),
         indices |-> (target :> index) @@ r.indices]

RECURSIVE SetIndices(_, _, _, _)
(* for a_sibling in &a_partition: indices[a_sibling] = b_index *)
SetIndices(indices, a_partition, i, b_index) ==
    IF i > Len(a_partition) THEN indices
    ELSE SetIndices([indices EXCEPT ![a_partition[i]] = b_index], a_partition, i + 1, b_index)

(* A merge that moves only the named target a to b's class, not a's siblings. *)
merge_only_a(r, a, b) ==
    LET a_index == r.indices[a]
        b_index == r.indices[b]
    IN  IF a_index # b_index
        THEN [partitions |-> [r.partitions EXCEPT ![b_index + 1] = @ \o <<a>>],
              indices |-> [r.indices EXCEPT ![a] = b_index]]
        ELSE r

(* merge: the clone of a's member list is appended to b's list and every   *)
(* member of the clone gets b's class id; self.partitions[a_index] itself  *)
(* is not written.                                                         *)
merge(r, a, b) ==
    LET a_index == r.indices[a]
        b_index == r.indices[b]
    IN  IF a_index # b_index
        THEN LET a_partition == r.partitions[a_index + 1]
             IN  [partitions |-> [r.partitions EXCEPT ![b_index + 1] = @ \o a_partition],
                  indices |-> SetIndices(r.indices, a_partition, 1, b_index)]
        ELSE r

(* The wire-only view. *)
to_gate_inputs(r) ==
    [partitions |-> [k \in DOMAIN r.partitions |-> SelectSeq(r.partitions[k], IsWire)],
     indices |-> [t \in {u \in DOMAIN r.indices : IsWire(u)} |-> r.indices[t]]]

----------------------------------------------------------------------------
(* The field (crate::Field): a prime field of FieldOrder elements.          *)

FieldOrder == 5

F == 0 .. (FieldOrder - 1)

ZERO == 0

ONE == 1

NEG_ONE == FieldOrder - 1

FAdd(a, b) == (a + b) % FieldOrder

FSub(a, b) == (a + FieldOrder - b) % FieldOrder

FMul(a, b) == (a * b) % FieldOrder

from_canonical_bool(bit) == IF bit THEN ONE ELSE ZERO

(* An Option as a set: {} is None (for zero), {y} is Some(y), x * y = 1. *)
multiplicative_inverse(x) == {y \in F : x # ZERO /\ FMul(x, y) = ONE}

RECURSIVE num_bits(_)
(* The bit length of the canonical integer of a field element. *)
num_bits(n) == IF n = 0 THEN 0 ELSE 1 + num_bits(n \div 2)

(* limb >> j & 1 *)
BitOf(n, j) == (n \div (2 ^ j)) % 2

RECURSIVE FPow(_, _)
FPow(a, n) == IF n = 0 THEN ONE ELSE FMul(a, FPow(a, n - 1))

----------------------------------------------------------------------------
(* The gate catalog (crate::plonk_gates): names, prefixes, wire slots and   *)
(* the constraint each gate type puts on its own wires.                    *)

PREFIX(name) ==
    CASE name = "ArithmeticGate" -> <<FALSE, FALSE>>
      [] name = "RescueStepAGate" -> <<FALSE, TRUE>>
      [] name = "RescueStepBGate" -> <<TRUE, FALSE>>
      [] name = "BufferGate" -> <<TRUE, TRUE, FALSE, FALSE>>
      [] name = "PublicInputGate" -> <<TRUE, TRUE, FALSE, TRUE>>
      [] name = "CurveAddGate" -> <<TRUE, TRUE, TRUE, FALSE>>
      [] name = "CurveDblGate" -> <<TRUE, TRUE, TRUE, TRUE>>

WIRE_BUFFER_CONST == 3

WIRE_MULTIPLICAND_0 == 0

WIRE_MULTIPLICAND_1 == 1

WIRE_ADDEND == 2

WIRE_OUTPUT == 3

(* The two half-round gates of the sponge permutation: state in, state out. *)
RescueStepAGate_WIRE_INPUT(k) == k

RescueStepAGate_WIRE_OUTPUT(k) == 3 + k

RescueStepBGate_WIRE_INPUT(k) == k

RescueStepBGate_WIRE_OUTPUT(k) == 3 + k

(* CurveAddGate and CurveDblGate. *)
CurveAddGate_WIRE_GROUP_ACC_X == 0

CurveAddGate_WIRE_GROUP_ACC_Y == 1

CurveAddGate_WIRE_SCALAR_ACC_OLD == 2

CurveAddGate_WIRE_SCALAR_ACC_NEW == 3

CurveAddGate_WIRE_ADDEND_X == 4

CurveAddGate_WIRE_ADDEND_Y == 5

CurveAddGate_WIRE_SCALAR_BIT == 6

CurveDblGate_WIRE_X_OLD == 0

CurveDblGate_WIRE_Y_OLD == 1

CurveDblGate_WIRE_X_NEW == 2

CurveDblGate_WIRE_Y_NEW == 3

(* The curve: affine points over F, a generator, and a doubling that never *)
(* gives the point at infinity.                                            *)
GENERATOR_AFFINE == [x |-> 2, y |-> 3, zero |-> FALSE]

AffinePoint_double(point) ==
    [x |-> FAdd(FMul(point.x, point.x), point.y), y |-> FAdd(point.x, 2), zero |-> FALSE]

(* The rounds of the permutation, taken few. *)
RescueRounds == 2

(* For each round, the constants of its A gate and of its B gate. *)
generate_rescue_constants(width) ==
    [round \in 1 .. RescueRounds |->
        <<[k \in 1 .. width |-> (round + k) % FieldOrder],
          [k \in 1 .. width |-> (2 * round + k) % FieldOrder]>>]

----------------------------------------------------------------------------
(* CircuitBuilder.  Every method is an operator from the builder (and the   *)
(* arguments) to the builder after the call and the value returned:        *)
(* [b |-> builder, result |-> value].                                      *)

CircuitBuilder_new ==
    [public_input_index |-> 0,
     virtual_target_index |-> 0,
     gate_counts |-> <<>>,
     gate_constants |-> <<>>,
     copy_constraints |-> <<>>,
     generators |-> <<>>,
     constant_wires |-> <<>>]

num_gates(b) == Len(b.gate_constants)

stage_public_input(b) ==
    [b |-> [b EXCEPT !.public_input_index = @ + 1],
     result |-> [index |-> b.public_input_index]]

add_virtual_target(b) ==
    [b |-> [b EXCEPT !.virtual_target_index = @ + 1],
     result |-> VirtualTarget(b.virtual_target_index)]

add_generator(b, generator) == [b EXCEPT !.generators = Append(@, generator)]

(* A gate object: its type's name and the index it was created with. *)
Gate(name, index) == <<"Gate", name, index>>

IsGate(generator) == generator[1] = "Gate"

(* The prefix bits of the gate's type, then the given constants. *)
add_gate(b, name, index, constants) ==
    LET prefix == PREFIX(name)
        all_constants == [k \in DOMAIN prefix |-> from_canonical_bool(prefix[k])] \o constants
        pushed == [b EXCEPT !.gate_constants = Append(@, all_constants)]
        generated == add_generator(pushed, Gate(name, index))
    IN  [generated EXCEPT !.gate_counts =
            (name :> (IF name \in DOMAIN @ THEN @[name] + 1 ELSE 1)) @@ @]

add_gate_no_constants(b, name, index) == add_gate(b, name, index, <<>>)

ceil_div_usize(a, b) == (a + b - 1) \div b

RECURSIVE RoutePublicInputGates(_, _, _)
(* for i in 0..num_pi_gates: a PublicInputGate, then a BufferGate *)
RoutePublicInputGates(b, i, num_pi_gates) ==
    IF i >= num_pi_gates \/ Len(b.gate_constants) < 0 THEN b
    ELSE RoutePublicInputGates(
             add_gate_no_constants(
                 add_gate_no_constants(b, "PublicInputGate", i * 2),
                 "BufferGate", i * 2 + 1),
             i + 1, num_pi_gates)

(* The debug_assert_eq! on num_gates exists in builds with debug           *)
(* assertions only.                                                        *)
route_public_inputs(b, debug_assertions) ==
    IF debug_assertions /\ num_gates(b) # 0
    THEN [b |-> b, panic |-> "Must be called before any gates are added"]
    ELSE [b |-> RoutePublicInputGates(b, 0, ceil_div_usize(b.public_input_index, NUM_WIRES)),
          panic |-> ""]

copy(b, target_1, target_2) ==
    [b EXCEPT !.copy_constraints = Append(@, <<target_1, target_2>>)]

create_constant_wire(b, c) ==
    LET index == num_gates(b)
    IN  [b |-> add_gate(b, "BufferGate", index, <<c>>),
         result |-> Wire(index, WIRE_BUFFER_CONST)]

(* A constant_wire that never looks at the cache. *)
constant_wire_uncached(b, c) ==
    LET created == create_constant_wire(b, c)
    IN  [b |-> [created.b EXCEPT !.constant_wires = (c :> created.result) @@ @],
         result |-> created.result]

constant_wire(b, c) ==
    IF c \in DOMAIN b.constant_wires
    THEN [b |-> b, result |-> b.constant_wires[c]]
    ELSE LET created == create_constant_wire(b, c)
         IN  [b |-> [created.b EXCEPT !.constant_wires = (c :> created.result) @@ @],
              result |-> created.result]

zero_wire(b) == constant_wire(b, ZERO)

one_wire(b) == constant_wire(b, ONE)

neg_one_wire(b) == constant_wire(b, NEG_ONE)

(* The arithmetic gate of add, sub and mul: one gate with the given        *)
(* constants, its multiplicands and addend copy-constrained to m0, m1, a.  *)
(* (The three methods repeat these five lines.)                            *)
ArithmeticCall(b, constants, m0, m1, a) ==
    LET index == num_gates(b)
        gated == add_gate(b, "ArithmeticGate", index, constants)
        c0 == copy(gated, m0, Wire(index, WIRE_MULTIPLICAND_0))
        c1 == copy(c0, m1, Wire(index, WIRE_MULTIPLICAND_1))
        c2 == copy(c1, a, Wire(index, WIRE_ADDEND))
    IN  [b |-> c2, result |-> Wire(index, WIRE_OUTPUT)]

add(b, x, y) ==
    LET zero == zero_wire(b)
    IN  IF x = zero.result THEN [b |-> zero.b, result |-> y]
        ELSE IF y = zero.result THEN [b |-> zero.b, result |-> x]
        ELSE LET one == one_wire(zero.b)
             IN  ArithmeticCall(one.b, <<ONE, ONE, ZERO>>, x, one.result, y)

(* A sub that also returns the other operand when x is the zero constant. *)
sub_either_zero(b, x, y) ==
    LET zero == zero_wire(b)
    IN  IF x = zero.result THEN [b |-> zero.b, result |-> y]
        ELSE IF y = zero.result THEN [b |-> zero.b, result |-> x]
        ELSE LET one == one_wire(zero.b)
             IN  ArithmeticCall(one.b, <<ONE, NEG_ONE, ZERO>>, x, one.result, y)

(* A sub whose gate adds the addend instead of subtracting it. *)
sub_plus(b, x, y) ==
    LET zero == zero_wire(b)
    IN  IF y = zero.result THEN [b |-> zero.b, result |-> x]
        ELSE LET one == one_wire(zero.b)
             IN  ArithmeticCall(one.b, <<ONE, ONE, ZERO>>, x, one.result, y)

sub(b, x, y) ==
    LET zero == zero_wire(b)
    IN  IF y = zero.result THEN [b |-> zero.b, result |-> x]
        ELSE LET one == one_wire(zero.b)
             IN  ArithmeticCall(one.b, <<ONE, NEG_ONE, ZERO>>, x, one.result, y)

(* A mul that also short-circuits on the zero constant: zero * y = zero. *)
mul_zero_absorbing(b, x, y) ==
    LET one == one_wire(b)
    IN  IF x = one.result THEN [b |-> one.b, result |-> y]
        ELSE IF y = one.result THEN [b |-> one.b, result |-> x]
        ELSE LET zero == zero_wire(one.b)
             IN  IF x = zero.result \/ y = zero.result
                 THEN [b |-> zero.b, result |-> zero.result]
                 ELSE ArithmeticCall(zero.b, <<ONE, ZERO, ZERO>>, x, y, zero.result)

mul(b, x, y) ==
    LET one == one_wire(b)
    IN  IF x = one.result THEN [b |-> one.b, result |-> y]
        ELSE IF y = one.result THEN [b |-> one.b, result |-> x]
        ELSE LET zero == zero_wire(one.b)
             IN  ArithmeticCall(zero.b, <<ONE, ZERO, ZERO>>, x, y, zero.result)

square(b, x) == mul(b, x, x)

(* The test that ends exp_constant's loop: all bits of power are done. *)
ExpDoneLate(bit_index, power_bits) == bit_index = power_bits + 1

ExpDone(bit_index, power_bits) == bit_index = power_bits

RECURSIVE exp_loop(_, _, _, _, _, _)
(* The loop of exp_constant at bit bit_index (power fits one 64-bit limb); *)
(* squarings counts the calls of square so far.                            *)
exp_loop(b, current, product, power, bit_index, squarings) ==
    IF ExpDone(bit_index, num_bits(power)) \/ bit_index = 64
    THEN [b |-> b, result |-> product, squarings |-> squarings]
    ELSE LET multiplied == IF BitOf(power, bit_index) # 0
                           THEN mul(b, product, current)
                           ELSE [b |-> b, result |-> product]
             squared == square(multiplied.b, current)
         IN  exp_loop(squared.b, squared.result, multiplied.result, power,
                      bit_index + 1, squarings + 1)

exp_constant(b, x, power) ==
    LET one == one_wire(b)
    IN  exp_loop(one.b, x, one.result, power, 0, 0)

InverseGenerator(x, x_inv) == <<"InverseGenerator", x, x_inv>>

IsInverseGenerator(generator) == generator[1] = "InverseGenerator"

InverseGenerator_dependencies(generator) == <<generator[2]>>

(* generate: the new values, or the panic of expect("x = 0"). *)
InverseGenerator_generate(generator, witness) ==
    LET x_value == witness.wire_values[generator[2]]
        x_inv_value == multiplicative_inverse(x_value)
    IN  IF x_inv_value = {}
        THEN [panic |-> "x = 0", result |-> PartialWitness_new]
        ELSE [panic |-> "",
              result |-> set_target(PartialWitness_new, generator[3],
                                    CHOOSE y \in x_inv_value : TRUE, TRUE).witness]

(* An inv that never records that the product is one. *)
inv_unconstrained(b, x) ==
    LET x_inv == add_virtual_target(b)
        generated == add_generator(x_inv.b, InverseGenerator(x, x_inv.result))
        product == mul(generated, x, x_inv.result)
        one == one_wire(product.b)
    IN  [b |-> one.b, result |-> x_inv.result]

inv(b, x) ==
    LET x_inv == add_virtual_target(b)
        generated == add_generator(x_inv.b, InverseGenerator(x, x_inv.result))
        product == mul(generated, x, x_inv.result)
        one == one_wire(product.b)
    IN  [b |-> copy(one.b, product.result, one.result), result |-> x_inv.result]

----------------------------------------------------------------------------
(* split_binary.                                                           *)

RECURSIVE add_virtual_targets(_, _)
(* (0..n).map(|i| self.add_virtual_target()).collect() *)
add_virtual_targets(b, n) ==
    IF n = 0 THEN [b |-> b, result |-> <<>>]
    ELSE LET Last(v) ==
                 LET One(target) == [b |-> target.b, result |-> Append(v.result, target.result)]
                 IN  Bind(add_virtual_target(v.b), One)
         IN  Bind(add_virtual_targets(b, n - 1), Last)

SplitGenerator(x, bits) == <<"SplitGenerator", x, bits>>

split_binary(b, x, bits) ==
    LET Generated(targets) ==
            [b |-> add_generator(targets.b, SplitGenerator(x, targets.result)),
             result |-> targets.result]
    IN  Bind(add_virtual_targets(b, bits), Generated)

----------------------------------------------------------------------------
(* The sponge.  rescue_sponge also returns, as ghost, the slots it added   *)
(* inputs into and how often it permuted while absorbing and squeezing.    *)

rescue_round(b, inputs, a_constants, b_constants) ==
    LET a_index == num_gates(b)
        a_gated == add_gate(b, "RescueStepAGate", a_index, a_constants)
        b_index == num_gates(a_gated)
        b_gated == add_gate(a_gated, "RescueStepBGate", b_index, b_constants)
        a_in(k) == Wire(a_index, RescueStepAGate_WIRE_INPUT(k))
        a_out(k) == Wire(a_index, RescueStepAGate_WIRE_OUTPUT(k))
        b_in(k) == Wire(b_index, RescueStepBGate_WIRE_INPUT(k))
        b_out(k) == Wire(b_index, RescueStepBGate_WIRE_OUTPUT(k))
        c1 == copy(b_gated, inputs[1], a_in(0))
        c2 == copy(c1, inputs[2], a_in(1))
        c3 == copy(c2, inputs[3], a_in(2))
        c4 == copy(c3, a_out(0), b_in(0))
        c5 == copy(c4, a_out(1), b_in(1))
        c6 == copy(c5, a_out(2), b_in(2))
    IN  [b |-> c6, result |-> <<b_out(0), b_out(1), b_out(2)>>]

RECURSIVE RescueRoundsFrom(_, _, _)
(* for (a_constants, b_constants) in all_constants; r is the builder and   *)
(* the state before this round.                                            *)
RescueRoundsFrom(r, all_constants, round) ==
    IF round > Len(all_constants) THEN r
    ELSE LET Round(v) ==
                 RescueRoundsFrom(
                     rescue_round(v.b, v.result, all_constants[round][1],
                                  all_constants[round][2]),
                     all_constants, round + 1)
         IN  Bind(r, Round)

rescue_permutation_3x3(b, inputs) ==
    RescueRoundsFrom([b |-> b, result |-> inputs], generate_rescue_constants(3), 1)

(* for i in 0..input_chunk.len(): state[i] = add(state[i], input_chunk[i]) *)
AbsorbChunk(b, state, input_chunk) ==
    LET Second(first) ==
            LET state_1 == [state EXCEPT ![1] = first.result]
                Both(second) ==
                    [b |-> second.b, result |-> [state_1 EXCEPT ![2] = second.result]]
            IN  IF Len(input_chunk) = 1
                THEN [b |-> first.b, result |-> state_1]
                ELSE Bind(add(first.b, state_1[2], input_chunk[2]), Both)
    IN  Bind(add(b, state[1], input_chunk[1]), Second)

RECURSIVE AbsorbChunks(_, _, _)
(* for input_chunk in inputs.chunks(2), from the chunk that starts at      *)
(* from; r is the builder, the state and the ghost before this chunk.      *)
AbsorbChunks(r, inputs, from) ==
    IF from > Len(inputs) THEN r
    ELSE LET to == IF from + 1 <= Len(inputs) THEN from + 1 ELSE from
             Chunk(v) ==
                 LET Permuted(permuted) ==
                         AbsorbChunks(
                             [b |-> permuted.b, result |-> permuted.result,
                              ghost |-> [v.ghost EXCEPT
                                            !.added_slots = @ \cup (0 .. (to - from)),
                                            !.absorb_permutations = @ + 1]],
                             inputs, from + 2)
                     Added(added) ==
                         Bind(rescue_permutation_3x3(added.b, added.result), Permuted)
                 IN  Bind(AbsorbChunk(v.b, v.result, SubSeq(inputs, from, to)), Added)
         IN  Bind(r, Chunk)

RECURSIVE SqueezeAlwaysPermuting(_, _, _)
(* A squeeze that permutes after every output pair, the last one too. *)
SqueezeAlwaysPermuting(r, outputs, num_outputs) ==
    IF Len(outputs) >= num_outputs THEN [b |-> r.b, result |-> outputs, ghost |-> r.ghost]
    ELSE LET Pair(v) ==
                 LET outputs_1 == Append(outputs, v.result[1])
                     outputs_2 == IF Len(outputs_1) < num_outputs
                                  THEN Append(outputs_1, v.result[2]) ELSE outputs_1
                     Permuted(permuted) ==
                         SqueezeAlwaysPermuting(
                             [b |-> permuted.b, result |-> permuted.result,
                              ghost |-> [v.ghost EXCEPT !.squeeze_permutations = @ + 1]],
                             outputs_2, num_outputs)
                 IN  Bind(rescue_permutation_3x3(v.b, v.result), Permuted)
         IN  Bind(r, Pair)

RECURSIVE Squeeze(_, _, _)
(* while outputs.len() < num_outputs; r is the builder, the state and the  *)
(* ghost before this pair of outputs.                                      *)
Squeeze(r, outputs, num_outputs) ==
    IF Len(outputs) >= num_outputs THEN [b |-> r.b, result |-> outputs, ghost |-> r.ghost]
    ELSE LET Pair(v) ==
                 LET outputs_1 == Append(outputs, v.result[1])
                     outputs_2 == IF Len(outputs_1) < num_outputs
                                  THEN Append(outputs_1, v.result[2]) ELSE outputs_1
                     Permuted(permuted) ==
                         Squeeze([b |-> permuted.b, result |-> permuted.result,
                                  ghost |-> [v.ghost EXCEPT !.squeeze_permutations = @ + 1]],
                                 outputs_2, num_outputs)
                 IN  IF Len(outputs_2) < num_outputs
                     THEN Bind(rescue_permutation_3x3(v.b, v.result), Permuted)
                     ELSE Squeeze(v, outputs_2, num_outputs)
         IN  Bind(r, Pair)

rescue_sponge(b, inputs, num_outputs) ==
    LET Absorb(zero) ==
            AbsorbChunks([b |-> zero.b,
                          result |-> <<zero.result, zero.result, zero.result>>,
                          ghost |-> [added_slots |-> {}, absorb_permutations |-> 0,
                                     squeeze_permutations |-> 0]],
                         inputs, 1)
    IN  Squeeze(Bind(zero_wire(b), Absorb), <<>>, num_outputs)

----------------------------------------------------------------------------
(* Curve gadgets.  An AffinePointTarget is [x |-> target, y |-> target].   *)

neg(b, x) ==
    LET Negated(neg_one) == mul(neg_one.b, x, neg_one.result)
    IN  Bind(neg_one_wire(b), Negated)

constant_affine_point(b, point) ==
    LET WithX(x) ==
            LET WithY(y) == [b |-> y.b, result |-> [x |-> x.result, y |-> y.result],
                             panic |-> ""]
            IN  Bind(constant_wire(x.b, point.y), WithY)
    IN  IF point.zero
        THEN [b |-> b, result |-> None, panic |-> "assertion failed: !point.zero"]
        ELSE Bind(constant_wire(b, point.x), WithX)

curve_neg(b, p) ==
    LET Negated(neg_y) == [b |-> neg_y.b, result |-> [x |-> p.x, y |-> neg_y.result]]
    IN  Bind(neg(b, p.y), Negated)

(* The inputs of the gate are not wired to p_1 and p_2. *)
curve_add(b, p_1, p_2) ==
    LET add_index == num_gates(b)
        added == add_gate_no_constants(b, "CurveAddGate", add_index)
        buffer_index == num_gates(added)
        buffered == add_gate_no_constants(added, "BufferGate", buffer_index)
    IN  [b |-> buffered,
         result |-> [x |-> Wire(buffer_index, CurveAddGate_WIRE_GROUP_ACC_X),
                     y |-> Wire(buffer_index, CurveAddGate_WIRE_GROUP_ACC_Y)]]

(* A doubling that wires p to the row after its gate. *)
curve_double_next_row(b, p) ==
    LET idx_dbl == num_gates(b)
        doubled == add_gate_no_constants(b, "CurveDblGate", idx_dbl)
        c1 == copy(doubled, p.x, Wire(idx_dbl + 1, CurveDblGate_WIRE_X_OLD))
        c2 == copy(c1, p.y, Wire(idx_dbl + 1, CurveDblGate_WIRE_Y_OLD))
    IN  [b |-> c2,
         result |-> [x |-> Wire(idx_dbl, CurveDblGate_WIRE_X_NEW),
                     y |-> Wire(idx_dbl, CurveDblGate_WIRE_Y_NEW)]]

curve_double(b, p) ==
    LET idx_dbl == num_gates(b)
        doubled == add_gate_no_constants(b, "CurveDblGate", idx_dbl)
        c1 == copy(doubled, p.x, Wire(idx_dbl, CurveDblGate_WIRE_X_OLD))
        c2 == copy(c1, p.y, Wire(idx_dbl, CurveDblGate_WIRE_Y_OLD))
    IN  [b |-> c2,
         result |-> [x |-> Wire(idx_dbl, CurveDblGate_WIRE_X_NEW),
                     y |-> Wire(idx_dbl, CurveDblGate_WIRE_Y_NEW)]]

curve_sub(b, p_1, p_2) ==
    LET Added(neg_p_2) == curve_add(neg_p_2.b, p_1, neg_p_2.result)
    IN  Bind(curve_neg(b, p_2), Added)

(* An add step that leaves scalars[j] as it was. *)
MsmAddUnthreaded(m, parts, i, j) ==
    LET part == parts[j]
        bit == part.scalar_bits[i + 1]
        idx_add == num_gates(m.b)
        added == add_gate_no_constants(m.b, "CurveAddGate", idx_add)
        c1 == copy(added, m.scalars[j], Wire(idx_add, CurveAddGate_WIRE_SCALAR_ACC_OLD))
        c2 == copy(c1, part.addend.x, Wire(idx_add, CurveAddGate_WIRE_ADDEND_X))
        c3 == copy(c2, part.addend.y, Wire(idx_add, CurveAddGate_WIRE_ADDEND_Y))
        c4 == copy(c3, bit, Wire(idx_add, CurveAddGate_WIRE_SCALAR_BIT))
    IN  [m EXCEPT !.b = c4,
                  !.adds = Append(@, [i |-> i, j |-> j, gate |-> idx_add])]

(* The body of "if i < part.scalar_bits.len()" for part j at bit i; m is   *)
(* the builder, the accumulator, the scalars and the filler, and as ghost  *)
(* the add and double gates emitted so far.                                *)
MsmAdd(m, parts, i, j) ==
    LET part == parts[j]
        bit == part.scalar_bits[i + 1]
        idx_add == num_gates(m.b)
        added == add_gate_no_constants(m.b, "CurveAddGate", idx_add)
        c1 == copy(added, m.scalars[j], Wire(idx_add, CurveAddGate_WIRE_SCALAR_ACC_OLD))
        c2 == copy(c1, part.addend.x, Wire(idx_add, CurveAddGate_WIRE_ADDEND_X))
        c3 == copy(c2, part.addend.y, Wire(idx_add, CurveAddGate_WIRE_ADDEND_Y))
        c4 == copy(c3, bit, Wire(idx_add, CurveAddGate_WIRE_SCALAR_BIT))
    IN  [m EXCEPT !.b = c4,
                  !.scalars[j] = Wire(idx_add, CurveAddGate_WIRE_SCALAR_ACC_NEW),
                  !.adds = Append(@, [i |-> i, j |-> j, gate |-> idx_add])]

RECURSIVE MsmParts(_, _, _, _)
(* for (j, part) in parts.iter().enumerate(), from part j *)
MsmParts(m, parts, i, j) ==
    IF j > Len(parts) THEN m
    ELSE LET Part(v) ==
                 MsmParts(IF i < Len(parts[j].scalar_bits) THEN MsmAdd(v, parts, i, j) ELSE v,
                          parts, i, j + 1)
         IN  Bind(m, Part)

(* One bit position: route the accumulator, add the parts, double. *)
MsmPosition(m, parts, i) ==
    LET c1 == copy(m.b, m.acc.x, Wire(num_gates(m.b), CurveAddGate_WIRE_GROUP_ACC_X))
        c2 == copy(c1, m.acc.y, Wire(num_gates(m.b), CurveAddGate_WIRE_GROUP_ACC_Y))
        Double(v) ==
            LET idx_dbl == num_gates(v.b)
            IN  [v EXCEPT !.b = add_gate_no_constants(v.b, "CurveDblGate", idx_dbl),
                          !.acc = [x |-> Wire(idx_dbl, CurveDblGate_WIRE_X_NEW),
                                   y |-> Wire(idx_dbl, CurveDblGate_WIRE_Y_NEW)],
                          !.filler = AffinePoint_double(@),
                          !.doubles = Append(@, [i |-> i, gate |-> idx_dbl])]
    IN  Bind(MsmParts([m EXCEPT !.b = c2], parts, i, 1), Double)

RECURSIVE MsmPositions(_, _, _)
(* for i in (0..max_bits).rev(), from position i down *)
MsmPositions(m, parts, i) ==
    IF i < 0 THEN m
    ELSE LET Position(v) == MsmPositions(MsmPosition(v, parts, i), parts, i - 1)
         IN  Bind(m, Position)

(* The largest element of a set of numbers. *)
Max(S) == CHOOSE n \in S : \A k \in S : k <= n

curve_msm(b, parts) ==
    LET Finish(m) ==
            LET Subtract(filler_target) ==
                    LET Result(acc) ==
                            [b |-> acc.b,
                             result |-> [sum |-> acc.result, scalars |-> m.scalars],
                             ghost |-> [adds |-> m.adds, doubles |-> m.doubles],
                             panic |-> ""]
                    IN  Bind(curve_sub(filler_target.b, m.acc, filler_target.result), Result)
            IN  Bind(constant_affine_point(m.b, m.filler), Subtract)
        WithAcc(acc) ==
            LET WithZero(zero) ==
                    MsmPositions(
                        [b |-> zero.b, acc |-> acc.result,
                         scalars |-> [j \in DOMAIN parts |-> zero.result],
                         filler |-> GENERATOR_AFFINE, adds |-> <<>>, doubles |-> <<>>],
                        parts,
                        Max({Len(parts[j].scalar_bits) : j \in DOMAIN parts}) - 1)
            IN  Bind(Bind(zero_wire(acc.b), WithZero), Finish)
    IN  IF parts = <<>>
        THEN [b |-> b, result |-> None, ghost |-> <<>>, panic |-> "Empty MSM"]
        ELSE Bind(constant_affine_point(b, GENERATOR_AFFINE), WithAcc)

----------------------------------------------------------------------------
(* build(): the routing partitions of the builder's targets.               *)

RECURSIVE AddVirtualPartitions(_, _, _)
(* for i in 0..self.virtual_target_index                                   *)
(* (The test on Len makes TLC evaluate each step before the next one.)     *)
AddVirtualPartitions(r, i, n) ==
    IF i >= n \/ Len(r.partitions) < 0 THEN r
    ELSE AddVirtualPartitions(add_partition(r, VirtualTarget(i)), i + 1, n)

RECURSIVE AddGateWirePartitions(_, _, _)
(* for input in 0..NUM_WIRES *)
AddGateWirePartitions(r, gate, input) ==
    IF input >= NUM_WIRES \/ Len(r.partitions) < 0 THEN r
    ELSE AddGateWirePartitions(add_partition(r, Wire(gate, input)), gate, input + 1)

RECURSIVE AddWirePartitions(_, _, _)
(* for gate in 0..self.num_gates() *)
AddWirePartitions(r, gate, gates) ==
    IF gate >= gates \/ Len(r.partitions) < 0 THEN r
    ELSE AddWirePartitions(AddGateWirePartitions(r, gate, 0), gate + 1, gates)

RECURSIVE MergeCopyConstraintsLenient(_, _, _)
(* A loop that skips a copy constraint on an unregistered target. *)
MergeCopyConstraintsLenient(r, constraints, i) ==
    IF i > Len(constraints) THEN [panic |-> "", partitions |-> r]
    ELSE IF constraints[i][1] \notin Registered(r) \/ constraints[i][2] \notin Registered(r)
    THEN MergeCopyConstraintsLenient(r, constraints, i + 1)
    ELSE MergeCopyConstraintsLenient(merge(r, constraints[i][1], constraints[i][2]),
                                     constraints, i + 1)

RECURSIVE MergeCopyConstraints(_, _, _)
(* The copy constraints in declared order; a lookup of an unregistered     *)
(* target panics.                                                          *)
MergeCopyConstraints(r, constraints, i) ==
    IF i > Len(constraints) THEN [panic |-> "", partitions |-> r]
    ELSE IF constraints[i][1] \notin Registered(r) \/ constraints[i][2] \notin Registered(r)
    THEN [panic |-> "key not found", partitions |-> r]
    ELSE MergeCopyConstraints(merge(r, constraints[i][1], constraints[i][2]),
                              constraints, i + 1)

get_routing_partitions(b) ==
    MergeCopyConstraints(
        AddWirePartitions(
            AddVirtualPartitions(RoutingTargetPartitions_new, 0, b.virtual_target_index),
            0, num_gates(b)),
        b.copy_constraints, 1)

----------------------------------------------------------------------------
(* Satisfying assignments of the circuit described so far: a value for     *)
(* every routing class, such that every gate's constraint holds.           *)

GateName(b, gate) == SelectSeq(b.generators, IsGate)[gate + 1][2]

(* The constants given to add_gate for this row (the row without prefix). *)
GateConfig(b, gate) ==
    LET row == b.gate_constants[gate + 1]
    IN  SubSeq(row, Len(PREFIX(GateName(b, gate))) + 1, Len(row))

(* The wires of a gate that its constraint mentions. *)
ConstrainedSlots(b, gate) ==
    CASE GateName(b, gate) = "BufferGate" ->
            IF GateConfig(b, gate) = <<>> THEN {} ELSE {WIRE_BUFFER_CONST}
      [] GateName(b, gate) = "ArithmeticGate" ->
            {WIRE_MULTIPLICAND_0, WIRE_MULTIPLICAND_1, WIRE_ADDEND, WIRE_OUTPUT}
      [] OTHER -> {}

(* w: the values of the targets. *)
GateHolds(b, gate, w) ==
    LET config == GateConfig(b, gate)
    IN  CASE GateName(b, gate) = "BufferGate" ->
                config = <<>> \/ w[Wire(gate, WIRE_BUFFER_CONST)] = config[1]
          [] GateName(b, gate) = "ArithmeticGate" ->
                w[Wire(gate, WIRE_OUTPUT)] =
                    FAdd(FAdd(FMul(config[1], FMul(w[Wire(gate, WIRE_MULTIPLICAND_0)],
                                                   w[Wire(gate, WIRE_MULTIPLICAND_1)])),
                              FMul(config[2], w[Wire(gate, WIRE_ADDEND)])),
                         config[3])
          [] OTHER -> TRUE

GateRows(b) == 0 .. (num_gates(b) - 1)

ValuedTargets(b) ==
    {VirtualTarget(i) : i \in 0 .. (b.virtual_target_index - 1)}
    \cup UNION {{Wire(g, slot) : slot \in ConstrainedSlots(b, g)} : g \in GateRows(b)}

(* The ways to extend the class values v by values for the classes new. *)
Extensions(v, new) ==
    {v @@ u : u \in [new -> F]}

RECURSIVE SolveGates(_, _, _, _)
(* The class values that satisfy the gates from row gate on, among the     *)
(* extensions of partial (class values that satisfy the rows before gate). *)
SolveGates(b, indices, gate, partial) ==
    IF gate >= num_gates(b) \/ partial = {} THEN partial
    ELSE LET wires == {Wire(gate, slot) : slot \in ConstrainedSlots(b, gate)}
             classes == {indices[t] : t \in wires}
             extended == UNION {Extensions(v, classes \ DOMAIN v) : v \in partial}
         IN  SolveGates(b, indices, gate + 1,
                        {v \in extended :
                            GateHolds(b, gate, [t \in wires |-> v[indices[t]]])})

(* The assignments to ValuedTargets that give copy-constrained targets the *)
(* same value (one value per routing class) and satisfy every gate.        *)
SatisfyingWitnesses(b) ==
    LET indices == get_routing_partitions(b).partitions.indices
        targets == ValuedTargets(b)
        classes == {indices[t] : t \in targets}
        solved == SolveGates(b, indices, 0, {<<>>})
        by_class == UNION {Extensions(v, classes \ DOMAIN v) : v \in solved}
        witnesses == {[t \in targets |-> v[indices[t]]] : v \in by_class}
    IN  {w \in witnesses :
            \A i \in DOMAIN b.copy_constraints :
                LET c == b.copy_constraints[i]
                IN  (c[1] \in targets /\ c[2] \in targets) => w[c[1]] = w[c[2]]}

----------------------------------------------------------------------------
(* The builder's calls as actions.                                         *)

MaxGates == 3
MaxVirtualTargets == 2

NoCall == [op |-> "new", x |-> None, y |-> None, c |-> 0, result |-> None,
           squarings |-> 0, ghost |-> <<>>, before |-> CircuitBuilder_new]

(* The rows of the gates of type name. *)
RowsOf(b, name) == {g \in GateRows(b) : GateName(b, g) = name}

(* The B gates that end a permutation: every RescueRounds-th one. *)
PermutationEnds(b) ==
    {g \in RowsOf(b, "RescueStepBGate") :
        Cardinality({h \in RowsOf(b, "RescueStepBGate") : h <= g}) % RescueRounds = 0}

(* The add gates of a multiplication whose new scalar no later gate takes. *)
ScalarEnds(b) ==
    {g \in RowsOf(b, "CurveAddGate") :
        /\ \E i \in DOMAIN b.copy_constraints :
              b.copy_constraints[i][2] = Wire(g, CurveAddGate_WIRE_SCALAR_ACC_OLD)
        /\ \A i \in DOMAIN b.copy_constraints :
              b.copy_constraints[i][1] # Wire(g, CurveAddGate_WIRE_SCALAR_ACC_NEW)}

(* The targets a caller can hold: the virtual targets handed out, the      *)
(* constant wires, the outputs of the arithmetic gates, the states that    *)
(* permutations returned and the scalars that multiplications returned.    *)
KnownTargets(b) ==
    {VirtualTarget(i) : i \in 0 .. (b.virtual_target_index - 1)}
    \cup {b.constant_wires[c] : c \in DOMAIN b.constant_wires}
    \cup {Wire(g, WIRE_OUTPUT) : g \in RowsOf(b, "ArithmeticGate")}
    \cup {Wire(g, RescueStepBGate_WIRE_OUTPUT(k)) : g \in PermutationEnds(b), k \in 0 .. 2}
    \cup {Wire(g, CurveAddGate_WIRE_SCALAR_ACC_NEW) : g \in ScalarEnds(b)}

Others == <<rtp, declared, pw, first_value, debug_build, panicked, public_input>>

InitOthers ==
    /\ rtp = RoutingTargetPartitions_new
    /\ declared = {}
    /\ pw = PartialWitness_new
    /\ first_value = <<>>
    /\ debug_build = TRUE
    /\ panicked = ""
    /\ public_input = [index |-> 0, target |-> None]

InitBuilder ==
    /\ builder = CircuitBuilder_new
    /\ last = NoCall

Init == InitBuilder /\ InitOthers

(* The call op(x, y, c) returned r. *)
Returned(op, x, y, c, r, gates, virtuals) ==
    /\ panicked = ""
    /\ last.op # "build"
    /\ num_gates(r.b) <= gates
    /\ r.b.virtual_target_index <= virtuals
    /\ builder' = r.b
    /\ last' = [op |-> op, x |-> x, y |-> y, c |-> c, result |-> r.result,
                squarings |-> IF "squarings" \in DOMAIN r THEN r.squarings ELSE 0,
                ghost |-> IF "ghost" \in DOMAIN r THEN r.ghost ELSE <<>>,
                before |-> builder]

AddVirtualTarget(gates, virtuals) ==
    /\ Returned("add_virtual_target", None, None, 0, add_virtual_target(builder),
                gates, virtuals)
    /\ UNCHANGED Others

ConstantWire(gates, virtuals) ==
    /\ \E c \in F : Returned("constant_wire", None, None, c, constant_wire(builder, c),
                              gates, virtuals)
    /\ UNCHANGED Others

Add(gates, virtuals) ==
    /\ \E x, y \in KnownTargets(builder) :
          Returned("add", x, y, 0, add(builder, x, y), gates, virtuals)
    /\ UNCHANGED Others

Sub(gates, virtuals) ==
    /\ \E x, y \in KnownTargets(builder) :
          Returned("sub", x, y, 0, sub(builder, x, y), gates, virtuals)
    /\ UNCHANGED Others

Mul(gates, virtuals) ==
    /\ \E x, y \in KnownTargets(builder) :
          Returned("mul", x, y, 0, mul(builder, x, y), gates, virtuals)
    /\ UNCHANGED Others

ExpConstant(gates, virtuals) ==
    /\ \E x \in KnownTargets(builder), power \in F :
          Returned("exp_constant", x, None, power, exp_constant(builder, x, power),
                   gates, virtuals)
    /\ UNCHANGED Others

Inv(gates, virtuals) ==
    /\ \E x \in KnownTargets(builder) :
          Returned("inv", x, None, 0, inv(builder, x), gates, virtuals)
    /\ UNCHANGED Others

Next ==
    \/ AddVirtualTarget(MaxGates, MaxVirtualTargets)
    \/ ConstantWire(MaxGates, MaxVirtualTargets)
    \/ Add(MaxGates, MaxVirtualTargets)
    \/ Sub(MaxGates, MaxVirtualTargets)
    \/ Mul(MaxGates, MaxVirtualTargets)

Spec == Init /\ [][Next]_vars

----------------------------------------------------------------------------
(* Properties of the builder's calls.                                      *)

IsCached(b, c, target) == c \in DOMAIN b.constant_wires /\ b.constant_wires[c] = target

Missing(b, c) == IF c \in DOMAIN b.constant_wires THEN 0 ELSE 1

GateCount(b, name) == IF name \in DOMAIN b.gate_counts THEN b.gate_counts[name] ELSE 0

IsArithmeticCall == last.op \in {"add", "sub", "mul"}

(* The constant whose target is the call's identity shortcut. *)
ShortcutConstant == IF last.op = "mul" THEN ONE ELSE ZERO

(* Neither operand of the last call is its identity-shortcut target. *)
NoShortcutOperand ==
    /\ ~IsCached(last.before, ShortcutConstant, last.x)
    /\ ~IsCached(last.before, ShortcutConstant, last.y)

(* The last call emitted no arithmetic gate and recorded no copy constraint. *)
ShortCircuited ==
    /\ GateCount(builder, "ArithmeticGate") = GateCount(last.before, "ArithmeticGate")
    /\ builder.copy_constraints = last.before.copy_constraints

(* C3: constant_wire returns the cached target of its value; a value that  *)
(* was cached before the call keeps its target and adds no gate, a new     *)
(* value adds exactly one gate; no call of the builder changes the target  *)
(* of a cached value; different values have different targets.            *)
C3_ConstantMemoization ==
    /\ last.op = "constant_wire" =>
          /\ IsCached(builder, last.c, last.result)
          /\ num_gates(builder) = num_gates(last.before) + Missing(last.before, last.c)
    /\ \A c \in DOMAIN last.before.constant_wires :
          IsCached(builder, c, last.before.constant_wires[c])
    /\ \A c, d \in DOMAIN builder.constant_wires :
          c # d => builder.constant_wires[c] # builder.constant_wires[d]

(* A value is requested again after a second value and an arithmetic gate. *)
C3_Witness ==
    /\ last.op = "constant_wire"
    /\ last.c \in DOMAIN last.before.constant_wires
    /\ Cardinality(DOMAIN builder.constant_wires) >= 2
    /\ GateCount(builder, "ArithmeticGate") >= 1

(* C4 as claimed: add, sub or mul on operands that are not shortcut        *)
(* targets increases num_gates by exactly one, in every builder state.     *)
C4_ExactlyOneGate ==
    (IsArithmeticCall /\ NoShortcutOperand) =>
        num_gates(builder) = num_gates(last.before) + 1

(* C4 amended: such a call adds exactly one arithmetic gate, and num_gates *)
(* grows by one plus the number of the constants zero and one that were    *)
(* not cached before the call.                                             *)
C4_OneArithmeticGate ==
    (IsArithmeticCall /\ NoShortcutOperand) =>
        /\ GateCount(builder, "ArithmeticGate") = GateCount(last.before, "ArithmeticGate") + 1
        /\ num_gates(builder) = num_gates(last.before) + 1
                                + Missing(last.before, ZERO) + Missing(last.before, ONE)

(* A mul with both constants cached adds exactly one gate. *)
C4_Witness ==
    /\ last.op = "mul"
    /\ NoShortcutOperand
    /\ Missing(last.before, ZERO) = 0
    /\ Missing(last.before, ONE) = 0
    /\ num_gates(builder) = num_gates(last.before) + 1

(* C5 as claimed: add and sub short-circuit when either operand is the     *)
(* cached zero, mul when either operand is the cached one.                 *)
C5_ShortcutEitherOperand ==
    (IsArithmeticCall /\ ~NoShortcutOperand) => ShortCircuited

(* C5 amended: add short-circuits when either operand is the cached zero,  *)
(* mul when either operand is the cached one, sub only when its second     *)
(* operand is the cached zero; sub(zero, y) with y not the zero target     *)
(* emits one arithmetic gate.  A short-circuited call returns the other    *)
(* operand.                                                                *)
C5_ShortcutAsCoded ==
    /\ (last.op \in {"add", "mul"} /\ IsCached(last.before, ShortcutConstant, last.x)) =>
          ShortCircuited /\ last.result = last.y
    /\ (IsArithmeticCall /\ ~IsCached(last.before, ShortcutConstant, last.x)
                         /\ IsCached(last.before, ShortcutConstant, last.y)) =>
          ShortCircuited /\ last.result = last.x
    /\ (last.op = "sub" /\ IsCached(last.before, ZERO, last.y)) =>
          ShortCircuited /\ last.result = last.x
    /\ (last.op = "sub" /\ ~IsCached(last.before, ZERO, last.y)) =>
          /\ GateCount(builder, "ArithmeticGate")
                = GateCount(last.before, "ArithmeticGate") + 1
          /\ Len(builder.copy_constraints) = Len(last.before.copy_constraints) + 3

(* sub(zero, y) with y another target. *)
C5_Witness ==
    /\ last.op = "sub"
    /\ IsCached(last.before, ZERO, last.x)
    /\ last.y # last.x
    /\ GateCount(builder, "ArithmeticGate") = GateCount(last.before, "ArithmeticGate") + 1

----------------------------------------------------------------------------
(* The arithmetic gadgets alone, two gates deep, for the values they       *)
(* compute.                                                                *)

MaxArithmeticGates == 4

NextArithmetic ==
    \/ AddVirtualTarget(MaxArithmeticGates, MaxVirtualTargets)
    \/ Add(MaxArithmeticGates, MaxVirtualTargets)
    \/ Sub(MaxArithmeticGates, MaxVirtualTargets)
    \/ Mul(MaxArithmeticGates, MaxVirtualTargets)

SpecArithmetic == Init /\ [][NextArithmetic]_vars

(* What the last arithmetic call is to compute from the operands' values. *)
Expected(a, b) ==
    CASE last.op = "add" -> FAdd(a, b)
      [] last.op = "sub" -> FSub(a, b)
      [] last.op = "mul" -> FMul(a, b)

(* C6: in every assignment that satisfies the gates and copy constraints   *)
(* recorded so far, the target returned by add(x, y) holds a + b, by       *)
(* sub(x, y) a - b and by mul(x, y) a * b, where a and b are the values of *)
(* x and y; with or without an identity shortcut.                          *)
C6_ArithmeticCorrect ==
    IsArithmeticCall =>
        \A w \in SatisfyingWitnesses(builder) :
            w[last.result] = Expected(w[last.x], w[last.y])

(* A sub that emitted a gate on the output of an earlier gate, satisfied   *)
(* by an assignment with operands of different nonzero values.             *)
C6_Witness ==
    /\ last.op = "sub"
    /\ GateCount(builder, "ArithmeticGate") = 2
    /\ last.x = Wire(2, WIRE_OUTPUT)
    /\ \E w \in SatisfyingWitnesses(builder) :
          w[last.x] # w[last.y] /\ w[last.x] # ZERO /\ w[last.y] # ZERO

----------------------------------------------------------------------------
(* RoutingTargetPartitions on its own: any targets registered (each once,  *)
(* as get_routing_partitions does), any merges.                            *)

(* Virtual targets and wires of gate 0, in turn. *)
PartitionTargets ==
    {IF k % 2 = 0 THEN VirtualTarget(k \div 2) ELSE Wire(0, k \div 2) :
        k \in 0 .. (MaxPartitionTargets - 1)}

RECURSIVE Reach(_, _)
(* The targets connected to a target of S by a chain of the pairs in edges. *)
Reach(edges, S) ==
    LET next == S \cup {u \in PartitionTargets : \E t \in S : {t, u} \in edges}
    IN  IF next = S THEN S ELSE Reach(edges, next)

(* The reflexive, symmetric and transitive closure of edges, as pairs. *)
Closure(edges) == UNION {{{t, u} : u \in Reach(edges, {t})} : t \in UNION edges}

UnchangedBuilder == UNCHANGED <<builder, last, pw, first_value, debug_build, public_input>>

AddPartition ==
    /\ panicked = ""
    /\ \E target \in PartitionTargets \ Registered(rtp) :
          rtp' = add_partition(rtp, target)
    /\ UNCHANGED <<declared, panicked>>
    /\ UnchangedBuilder

(* merge(a, b); the lookup self.indices[&a] of an unregistered target panics. *)
Merge ==
    /\ panicked = ""
    /\ \E a, b \in PartitionTargets :
          IF a \in Registered(rtp) /\ b \in Registered(rtp)
          THEN /\ rtp' = merge(rtp, a, b)
               /\ declared' = Closure(declared \cup {{a, b}})
               /\ UNCHANGED panicked
          ELSE /\ panicked' = "key not found"
               /\ UNCHANGED <<rtp, declared>>
    /\ UnchangedBuilder

NextPartitions == AddPartition \/ Merge

SpecPartitions == Init /\ [][NextPartitions]_vars

(* A chain of declared merges connects t and u (or t is u). *)
Connected(t, u) == t = u \/ {t, u} \in declared

(* C1: two registered targets have the same class id in the index map iff  *)
(* a chain of declared merges connects them.                               *)
C1_SameClassIffConnected ==
    \A t, u \in Registered(rtp) :
        (rtp.indices[t] = rtp.indices[u]) <=> Connected(t, u)

(* Three targets in one class, a fourth in a class of its own. *)
C1_Witness ==
    /\ \E t \in Registered(rtp) : Cardinality({u \in Registered(rtp) : Connected(t, u)}) = 3
    /\ \E t \in Registered(rtp) : Cardinality({u \in Registered(rtp) : Connected(t, u)}) = 1
    /\ \E k \in DOMAIN rtp.partitions : Len(rtp.partitions[k]) = 3

(* Every target of the index map is in the member list of its class id,    *)
(* once, and in no other list.                                             *)
ExactlyOneList(p) ==
    \A t \in DOMAIN p.indices :
        \A k \in DOMAIN p.partitions :
            Cardinality({i \in DOMAIN p.partitions[k] : p.partitions[k][i] = t})
                = (IF k = p.indices[t] + 1 THEN 1 ELSE 0)

(* C2: the member lists are pairwise disjoint and every registered target  *)
(* is in exactly one of them, the list of its class id (so a merged-away   *)
(* class has an empty list); the same for the wire-only view.              *)
C2_MemberListsDisjoint ==
    /\ ExactlyOneList(rtp)
    /\ ExactlyOneList(to_gate_inputs(rtp))

----------------------------------------------------------------------------
(* Public inputs: staged by the builder, then addressed.                   *)

StagePublicInput ==
    /\ builder.public_input_index < MaxPublicInputs
    /\ LET staged == stage_public_input(builder)
       IN  /\ builder' = staged.b
           /\ public_input' = [index |-> staged.result.index, target |-> None]
    /\ UNCHANGED <<last, rtp, declared, pw, first_value, debug_build, panicked>>

RoutableTarget ==
    /\ \E index \in 0 .. (builder.public_input_index - 1) :
          public_input' = [index |-> index, target |-> routable_target([index |-> index])]
    /\ UNCHANGED <<builder, last, rtp, declared, pw, first_value, debug_build, panicked>>

NextPublicInput == StagePublicInput \/ RoutableTarget

SpecPublicInput == Init /\ [][NextPublicInput]_vars

(* C7: the routable target of public input i is a routed wire (slot below  *)
(* NUM_ROUTED_WIRES): the wire of gate (i / NUM_WIRES) * 2 at slot         *)
(* i mod NUM_WIRES when that slot is routed, else the wire of the next     *)
(* gate at that slot minus NUM_ROUTED_WIRES.                               *)
C7_RoutableIsRouted ==
    public_input.target # None =>
        LET gate == (public_input.index \div NUM_WIRES) * 2
            slot == public_input.index % NUM_WIRES
        IN  /\ public_input.target[3] < NUM_ROUTED_WIRES
            /\ public_input.target = IF slot < NUM_ROUTED_WIRES
                                     THEN Wire(gate, slot)
                                     ELSE Wire(gate + 1, slot - NUM_ROUTED_WIRES)

----------------------------------------------------------------------------
(* The PartialWitness on its own, in a build with or without debug         *)
(* assertions.                                                             *)

WitnessTargets ==
    {IF k % 2 = 0 THEN VirtualTarget(k \div 2) ELSE Wire(0, k \div 2) :
        k \in 0 .. (MaxWitnessTargets - 1)}

InitWitness ==
    /\ InitBuilder
    /\ rtp = RoutingTargetPartitions_new
    /\ declared = {}
    /\ pw = PartialWitness_new
    /\ first_value = <<>>
    /\ debug_build \in BOOLEAN
    /\ panicked = ""
    /\ public_input = [index |-> 0, target |-> None]

(* The witness after a set_target or set_wire call that returned set. *)
Assigned(target, value, set) ==
    /\ pw' = set.witness
    /\ panicked' = set.panic
    /\ first_value' = IF target \in DOMAIN first_value THEN first_value
                      ELSE (target :> value) @@ first_value
    /\ UNCHANGED <<builder, last, rtp, declared, debug_build, public_input>>

SetTarget ==
    /\ panicked = ""
    /\ \E target \in WitnessTargets, value \in F :
          Assigned(target, value, set_target(pw, target, value, debug_build))

SetWire ==
    /\ panicked = ""
    /\ \E wire \in {t \in WitnessTargets : IsWire(t)}, value \in F :
          Assigned(wire, value, set_wire(pw, wire, value, debug_build))

NextWitness == SetTarget \/ SetWire

SpecWitness == InitWitness /\ [][NextWitness]_vars

(* C10: a set_target on an assigned target fails loudly and does not       *)
(* overwrite: while the program runs every assigned target holds the first *)
(* value assigned to it.                                                   *)
C10_WriteOnce ==
    panicked = "" =>
        \A target \in DOMAIN pw.wire_values : pw.wire_values[target] = first_value[target]

----------------------------------------------------------------------------
(* exp_constant, for the value it computes and the gates it emits.         *)

MaxExponentGates == 5

NextExponent ==
    \/ AddVirtualTarget(MaxExponentGates, MaxVirtualTargets)
    \/ ExpConstant(MaxExponentGates, MaxVirtualTargets)

SpecExponent == Init /\ [][NextExponent]_vars

(* C8: the target returned by exp_constant(x, power) holds x^power in      *)
(* every satisfying assignment; for power = 0 it is the one constant and   *)
(* no arithmetic gate is emitted; the squarings never exceed the bit       *)
(* length of power.                                                        *)
C8_ExpConstantCorrect ==
    last.op = "exp_constant" =>
        /\ \A w \in SatisfyingWitnesses(builder) :
              w[last.result] = FPow(w[last.x], last.c)
        /\ last.c = 0 =>
              /\ IsCached(builder, ONE, last.result)
              /\ GateCount(builder, "ArithmeticGate")
                    = GateCount(last.before, "ArithmeticGate")
        /\ last.squarings <= num_bits(last.c)
        /\ GateCount(builder, "ArithmeticGate")
              <= GateCount(last.before, "ArithmeticGate") + last.squarings
                 + Cardinality({j \in 0 .. (num_bits(last.c) - 1) : BitOf(last.c, j) # 0})

(* x^3 for a virtual x that holds 2: a multiplication of two earlier       *)
(* results between two squarings.                                          *)
C8_Witness ==
    /\ last.op = "exp_constant"
    /\ last.c = 3
    /\ last.x = VirtualTarget(0)
    /\ last.squarings = 2
    /\ GateCount(builder, "ArithmeticGate") = 3
    /\ \E w \in SatisfyingWitnesses(builder) : w[last.x] = 2 /\ w[last.result] = 3

----------------------------------------------------------------------------
(* inv, and the generator it registers run against a partial witness.      *)

MaxInverseGates == 4
MaxInverseVirtuals == 3

(* The caller assigns a value to a target some generator depends on. *)
SetDependency ==
    /\ panicked = ""
    /\ \E i \in DOMAIN builder.generators, value \in F :
          LET generator == builder.generators[i]
              target == generator[2]
          IN  /\ IsInverseGenerator(generator)
              /\ target \notin DOMAIN pw.wire_values
              /\ \A j \in DOMAIN builder.generators :
                    IsInverseGenerator(builder.generators[j])
                        => builder.generators[j][3] # target
              /\ LET set == set_target(pw, target, value, debug_build)
                 IN  /\ pw' = set.witness
                     /\ panicked' = set.panic
    /\ UNCHANGED <<builder, last, rtp, declared, first_value, debug_build, public_input>>

(* An inverse generator whose dependencies are assigned and whose output   *)
(* is not runs; the values it returns are merged into the witness.         *)
Generate ==
    /\ panicked = ""
    /\ \E i \in DOMAIN builder.generators :
          LET generator == builder.generators[i]
          IN  /\ IsInverseGenerator(generator)
              /\ \A d \in Range(InverseGenerator_dependencies(generator)) :
                    d \in DOMAIN pw.wire_values
              /\ generator[3] \notin DOMAIN pw.wire_values
              /\ LET generated == InverseGenerator_generate(generator, pw)
                 IN  /\ panicked' = generated.panic
                     /\ pw' = [wire_values |->
                                  generated.result.wire_values @@ pw.wire_values]
              /\ last' = [op |-> "generate", x |-> generator[2], y |-> None, c |-> 0,
                          result |-> generator[3], squarings |-> 0, ghost |-> <<>>, before |-> builder]
    /\ UNCHANGED <<builder, rtp, declared, first_value, debug_build, public_input>>

NextInverse ==
    \/ AddVirtualTarget(MaxInverseGates, MaxInverseVirtuals)
    \/ Inv(MaxInverseGates, MaxInverseVirtuals)
    \/ SetDependency
    \/ Generate

SpecInverse == Init /\ [][NextInverse]_vars

(* The generators after the first n that are not gates. *)
NewGenerators(b, n) ==
    SelectSeq(SubSeq(b.generators, n + 1, Len(b.generators)), LAMBDA g : ~IsGate(g))

(* C9: inv(x) returns a fresh virtual target r, registers one generator    *)
(* that depends on x only, and every satisfying assignment has x * r = 1;  *)
(* the generator run on a zero x fails fatally and assigns nothing to r.   *)
C9_InverseCorrect ==
    /\ last.op = "inv" =>
          /\ last.result = VirtualTarget(last.before.virtual_target_index)
          /\ last.result \notin KnownTargets(last.before)
          /\ NewGenerators(builder, Len(last.before.generators))
                = <<InverseGenerator(last.x, last.result)>>
          /\ InverseGenerator_dependencies(InverseGenerator(last.x, last.result))
                = <<last.x>>
          /\ \A w \in SatisfyingWitnesses(builder) :
                FMul(w[last.x], w[last.result]) = ONE
    /\ last.op = "generate" =>
          IF pw.wire_values[last.x] = ZERO
          THEN /\ panicked = "x = 0"
               /\ last.result \notin DOMAIN pw.wire_values
          ELSE /\ panicked = ""
               /\ FMul(pw.wire_values[last.x], pw.wire_values[last.result]) = ONE

(* inv of a virtual target whose circuit has a satisfying assignment, and  *)
(* the generator then run on the value zero.                               *)
C9_Witness ==
    /\ last.op = "generate"
    /\ last.x = VirtualTarget(0)
    /\ pw.wire_values[last.x] = ZERO
    /\ panicked = "x = 0"
    /\ InverseGenerator(last.x, last.result) \in Range(builder.generators)
    /\ \E w \in SatisfyingWitnesses(builder) : w[last.x] = 2 /\ w[last.result] = 3

----------------------------------------------------------------------------
(* build(): the builder is consumed and the Circuit returned, unless the   *)
(* routing partitions panic on a copy constraint.                          *)

MaxBuildGates == 3
MaxBuildVirtuals == 1
MaxBuildPublicInputs == 12
MaxBuildCopies == 2

InitBuild ==
    /\ InitBuilder
    /\ rtp = RoutingTargetPartitions_new
    /\ declared = {}
    /\ pw = PartialWitness_new
    /\ first_value = <<>>
    /\ debug_build \in BOOLEAN
    /\ panicked = ""
    /\ public_input = [index |-> 0, target |-> None]

Building == panicked = "" /\ last.op # "build"

(* stage_public_inputs(n), before any other call. *)
StagePublicInputs ==
    /\ Building
    /\ last.op = "new"
    /\ builder.public_input_index = 0
    /\ \E n \in {1, NUM_WIRES, MaxBuildPublicInputs} :
          /\ builder' = [builder EXCEPT !.public_input_index = n]
          /\ public_input' = [index |-> n - 1, target |-> None]
    /\ UNCHANGED <<last, rtp, declared, pw, first_value, debug_build, panicked>>

RoutePublicInputs(gates) ==
    /\ Building
    /\ builder.public_input_index > 0
    /\ last.op # "route_public_inputs"
    /\ LET routed == route_public_inputs(builder, debug_build)
       IN  /\ num_gates(routed.b) <= gates
           /\ builder' = routed.b
           /\ panicked' = routed.panic
           /\ last' = [op |-> "route_public_inputs", x |-> None, y |-> None, c |-> 0,
                       result |-> None, squarings |-> 0, ghost |-> <<>>, before |-> builder]
    /\ UNCHANGED <<rtp, declared, pw, first_value, debug_build, public_input>>

(* Targets a caller can write down without the builder handing them out.  *)
ForeignTargets(b) ==
    {VirtualTarget(b.virtual_target_index), Wire(num_gates(b), 0), Wire(0, NUM_WIRES)}

(* copy(a, b) on any two targets. *)
Copy(copies) ==
    /\ Building
    /\ Len(builder.copy_constraints) < copies
    /\ \E a, b \in KnownTargets(builder) \cup ForeignTargets(builder) :
          /\ builder' = copy(builder, a, b)
          /\ last' = [op |-> "copy", x |-> a, y |-> b, c |-> 0, result |-> None,
                      squarings |-> 0, ghost |-> <<>>, before |-> builder]
    /\ UNCHANGED Others

Build ==
    /\ Building
    /\ LET routing_target_partitions == get_routing_partitions(builder)
       IN  /\ rtp' = routing_target_partitions.partitions
           /\ panicked' = routing_target_partitions.panic
    /\ last' = [op |-> "build", x |-> None, y |-> None, c |-> 0, result |-> None,
                squarings |-> 0, ghost |-> <<>>, before |-> builder]
    /\ UNCHANGED <<builder, declared, pw, first_value, debug_build, public_input>>

(* The Circuit that build() returned. *)
Built == last.op = "build" /\ panicked = ""

Circuit ==
    [gate_constants |-> builder.gate_constants,
     routing_target_partitions |-> rtp,
     generators |-> builder.generators]

NextBuild ==
    \/ StagePublicInputs
    \/ RoutePublicInputs(MaxBuildGates)
    \/ AddVirtualTarget(MaxBuildGates, MaxBuildVirtuals)
    \/ Add(MaxBuildGates, MaxBuildVirtuals)
    \/ Copy(MaxBuildCopies)
    \/ Build

SpecBuild == InitBuild /\ [][NextBuild]_vars

(* The gates emitted: the generators that are gates, in order. *)
EmittedGates(b) == SelectSeq(b.generators, IsGate)

(* C11: in the Circuit returned by build() the gate-constant matrix has    *)
(* one row per emitted gate, and every row has exactly NUM_CONSTANTS       *)
(* entries that start with the prefix bits of the gate's type.             *)
C11_RowsPadded ==
    Built =>
        /\ Len(Circuit.gate_constants) = Len(EmittedGates(builder))
        /\ \A g \in DOMAIN Circuit.gate_constants :
              LET row == Circuit.gate_constants[g]
                  prefix == PREFIX(EmittedGates(builder)[g][2])
              IN  /\ Len(row) = NUM_CONSTANTS
                  /\ SubSeq(row, 1, Len(prefix))
                        = [k \in DOMAIN prefix |-> from_canonical_bool(prefix[k])]

(* A target the builder b registers when it builds. *)
IsRegisteredTarget(b, target) ==
    IF IsWire(target)
    THEN target[2] < num_gates(b) /\ target[3] < NUM_WIRES
    ELSE target[2] < b.virtual_target_index

(* The copy constraints of b that name a target b does not register. *)
UnregisteredCopies(b) ==
    {i \in DOMAIN b.copy_constraints :
        \/ ~IsRegisteredTarget(b, b.copy_constraints[i][1])
        \/ ~IsRegisteredTarget(b, b.copy_constraints[i][2])}

(* C13: build() on a builder with a copy constraint that names an          *)
(* unregistered target aborts and returns no Circuit; in a Circuit that    *)
(* is returned every copy constraint has put its two targets in one class. *)
C13_UnregisteredCopyAborts ==
    last.op = "build" =>
        /\ UnregisteredCopies(builder) # {} => panicked = "key not found"
        /\ Built =>
              \A i \in DOMAIN builder.copy_constraints :
                  LET pair == builder.copy_constraints[i]
                  IN  /\ pair[1] \in Registered(Circuit.routing_target_partitions)
                      /\ pair[2] \in Registered(Circuit.routing_target_partitions)
                      /\ Circuit.routing_target_partitions.indices[pair[1]]
                            = Circuit.routing_target_partitions.indices[pair[2]]

(* A build that aborts on a wire of a gate that was never emitted, after   *)
(* a copy between registered targets.                                      *)
C13_Witness ==
    /\ last.op = "build"
    /\ panicked = "key not found"
    /\ Len(builder.copy_constraints) = 2
    /\ UnregisteredCopies(builder) = {2}
    /\ builder.copy_constraints[2][2] = Wire(num_gates(builder), 0)
    /\ num_gates(builder) > 0

----------------------------------------------------------------------------
(* The copy constraints of a builder merged in another order.              *)

MaxMergeVirtuals == 3
MaxMergeCopies == 3

(* copy(a, b) on two targets the builder handed out. *)
CopyKnown(copies) ==
    /\ Building
    /\ Len(builder.copy_constraints) < copies
    /\ \E a, b \in KnownTargets(builder) :
          /\ builder' = copy(builder, a, b)
          /\ last' = [op |-> "copy", x |-> a, y |-> b, c |-> 0, result |-> None,
                      squarings |-> 0, ghost |-> <<>>, before |-> builder]
    /\ UNCHANGED Others

NextMergeOrder ==
    \/ AddVirtualTarget(0, MaxMergeVirtuals)
    \/ CopyKnown(MaxMergeCopies)

SpecMergeOrder == Init /\ [][NextMergeOrder]_vars

Orders(n) == {p \in [1 .. n -> 1 .. n] : \A i, j \in 1 .. n : p[i] = p[j] => i = j}

(* The constraints in the order p, the pairs at the positions in flipped   *)
(* with their arguments exchanged.                                         *)
Reordered(constraints, p, flipped) ==
    [k \in DOMAIN constraints |->
        IF k \in flipped
        THEN <<constraints[p[k]][2], constraints[p[k]][1]>>
        ELSE constraints[p[k]]]

SameClassRelation(r) ==
    {pair \in Registered(r) \X Registered(r) : r.indices[pair[1]] = r.indices[pair[2]]}

(* The classes as the partitions hold them: the member sets of the         *)
(* non-empty member lists.                                                 *)
ObservableClasses(r) == {Range(r.partitions[k]) : k \in DOMAIN r.partitions} \ {{}}

(* The classes the index map points to. *)
IndexedClasses(r) == {Range(r.partitions[r.indices[t] + 1]) : t \in Registered(r)}

(* C14: merging the copy constraints in any order, with either argument    *)
(* order within a pair, gives the same same-class relation and the same    *)
(* set of classes with their members.                                      *)
C14_MergeOrderIndependent ==
    LET n == Len(builder.copy_constraints)
        declared_order == get_routing_partitions(builder).partitions
    IN  \A p \in Orders(n), flipped \in SUBSET (1 .. n) :
            LET reordered == [builder EXCEPT !.copy_constraints = Reordered(@, p, flipped)]
                other_order == get_routing_partitions(reordered).partitions
            IN  /\ SameClassRelation(other_order) = SameClassRelation(declared_order)
                /\ ObservableClasses(other_order) = ObservableClasses(declared_order)

(* The part of C14 about the same-class relation and the classes the index *)
(* map points to.                                                          *)
C14_IndexedClassesIndependent ==
    LET n == Len(builder.copy_constraints)
        declared_order == get_routing_partitions(builder).partitions
    IN  \A p \in Orders(n), flipped \in SUBSET (1 .. n) :
            LET reordered == [builder EXCEPT !.copy_constraints = Reordered(@, p, flipped)]
                other_order == get_routing_partitions(reordered).partitions
            IN  /\ SameClassRelation(other_order) = SameClassRelation(declared_order)
                /\ IndexedClasses(other_order) = IndexedClasses(declared_order)

----------------------------------------------------------------------------
(* rescue_sponge on a builder with a few virtual targets.                  *)

MaxSpongeGates == 15
MaxSpongeVirtuals == 2
MaxSpongeInputs == 3
MaxSpongeOutputs == 3

SeqsUpTo(S, n) == UNION {[1 .. k -> S] : k \in 0 .. n}

(* One sponge that permutes per builder. *)
RescueSponge(gates, virtuals) ==
    /\ GateCount(builder, "RescueStepAGate") = 0
    /\ \E inputs \in SeqsUpTo(KnownTargets(builder), MaxSpongeInputs),
          num_outputs \in 0 .. MaxSpongeOutputs :
          Returned("rescue_sponge", inputs, None, num_outputs,
                   rescue_sponge(builder, inputs, num_outputs), gates, virtuals)
    /\ UNCHANGED Others

NextSponge ==
    \/ AddVirtualTarget(MaxSpongeGates, MaxSpongeVirtuals)
    \/ RescueSponge(MaxSpongeGates, MaxSpongeVirtuals)

SpecSponge == Init /\ [][NextSponge]_vars

(* The gates of type name that the last call added. *)
GatesAdded(name) == GateCount(builder, name) - GateCount(last.before, name)

----------------------------------------------------------------------------
(* curve_msm on a builder with a few scalar bits and a constant point.     *)

MaxMsmGates == 18
MaxMsmVirtuals == 2
MaxMsmParts == 2
MaxScalarBits == 2

(* The point targets a caller can hold: constant points, and the outputs   *)
(* of the doubling gates and of the buffer gates after addition gates.     *)
KnownPoints(b) ==
    {[x |-> b.constant_wires[point.x], y |-> b.constant_wires[point.y]] :
        point \in {q \in {GENERATOR_AFFINE, AffinePoint_double(GENERATOR_AFFINE)} :
                      q.x \in DOMAIN b.constant_wires /\ q.y \in DOMAIN b.constant_wires}}
    \cup {[x |-> Wire(g, CurveDblGate_WIRE_X_NEW), y |-> Wire(g, CurveDblGate_WIRE_Y_NEW)] :
            g \in {h \in GateRows(b) : GateName(b, h) = "CurveDblGate"}}
    \cup {[x |-> Wire(g, CurveAddGate_WIRE_GROUP_ACC_X),
           y |-> Wire(g, CurveAddGate_WIRE_GROUP_ACC_Y)] :
            g \in {h \in GateRows(b) : h > 0 /\ GateName(b, h) = "BufferGate"
                                         /\ GateName(b, h - 1) = "CurveAddGate"}}

ConstantAffinePoint(gates, virtuals) ==
    /\ \E point \in {GENERATOR_AFFINE, AffinePoint_double(GENERATOR_AFFINE)} :
          Returned("constant_affine_point", None, None, point.x,
                   constant_affine_point(builder, point), gates, virtuals)
    /\ UNCHANGED Others

(* The part lists of up to parts parts with up to bits scalar bits each. *)
MsmPartLists(b, parts, bits) ==
    SeqsUpTo([scalar_bits : SeqsUpTo({VirtualTarget(i) : i \in 0 .. (b.virtual_target_index - 1)},
                                      bits),
              addend : KnownPoints(b)],
             parts)

(* One multiplication per builder; on an empty list the call panics.       *)
CurveMsm(gates, virtuals, parts, bits) ==
    /\ panicked = ""
    /\ last.op # "build"
    /\ GateCount(builder, "CurveAddGate") = 0
    /\ \E part_list \in MsmPartLists(builder, parts, bits) :
          LET r == curve_msm(builder, part_list)
          IN  /\ num_gates(r.b) <= gates
              /\ builder' = r.b
              /\ panicked' = r.panic
              /\ last' = [op |-> "curve_msm", x |-> part_list, y |-> None, c |-> 0,
                          result |-> r.result, squarings |-> 0, ghost |-> r.ghost,
                          before |-> builder]
    /\ UNCHANGED <<rtp, declared, pw, first_value, debug_build, public_input>>

NextMsm ==
    \/ AddVirtualTarget(MaxMsmGates, MaxMsmVirtuals)
    \/ ConstantAffinePoint(MaxMsmGates, MaxMsmVirtuals)
    \/ CurveMsm(MaxMsmGates, MaxMsmVirtuals, MaxMsmParts, MaxScalarBits)

SpecMsm == Init /\ [][NextMsm]_vars

(* The add steps before step k of the same part. *)
EarlierAdds(adds, k) == {l \in 1 .. (k - 1) : adds[l].j = adds[k].j}

(* The target that holds part j's scalar before add step k. *)
ScalarBefore(adds, k) ==
    IF EarlierAdds(adds, k) = {}
    THEN builder.constant_wires[ZERO]
    ELSE Wire(adds[Max(EarlierAdds(adds, k))].gate, CurveAddGate_WIRE_SCALAR_ACC_NEW)

(* C15: curve_msm visits the bit positions from the highest down to 0,     *)
(* emits one CurveAddGate for every position i and part j with a bit at i, *)
(* then one CurveDblGate per position; the scalar accumulator of each add  *)
(* gate is copied from zero or from the part's previous add gate, its      *)
(* scalar bit from scalar_bits_j[i], and scalars[j] is the accumulator     *)
(* output of part j's last add gate.                                       *)
C15_MsmSchedule ==
    (last.op = "curve_msm" /\ panicked = "") =>
        LET parts == last.x
            adds == last.ghost.adds
            doubles == last.ghost.doubles
            max_bits == Max({Len(parts[j].scalar_bits) : j \in DOMAIN parts})
            copies == Range(builder.copy_constraints)
        IN  /\ {<<adds[k].i, adds[k].j>> : k \in DOMAIN adds}
                  = {<<i, j>> \in (0 .. (max_bits - 1)) \X DOMAIN parts :
                        i < Len(parts[j].scalar_bits)}
            /\ \A k, l \in DOMAIN adds :
                  k < l => /\ adds[k].gate < adds[l].gate
                           /\ \/ adds[k].i > adds[l].i
                              \/ adds[k].i = adds[l].i /\ adds[k].j < adds[l].j
            /\ GatesAdded("CurveAddGate") = Len(adds) + 1
            /\ GatesAdded("CurveDblGate") = max_bits
            /\ Len(doubles) = max_bits
            /\ \A k \in DOMAIN adds :
                  /\ GateName(builder, adds[k].gate) = "CurveAddGate"
                  /\ adds[k].gate >= num_gates(last.before)
                  /\ {c \in copies : c[2] = Wire(adds[k].gate, CurveAddGate_WIRE_SCALAR_ACC_OLD)}
                        = {<<ScalarBefore(adds, k),
                             Wire(adds[k].gate, CurveAddGate_WIRE_SCALAR_ACC_OLD)>>}
                  /\ {c \in copies : c[2] = Wire(adds[k].gate, CurveAddGate_WIRE_SCALAR_BIT)}
                        = {<<parts[adds[k].j].scalar_bits[adds[k].i + 1],
                             Wire(adds[k].gate, CurveAddGate_WIRE_SCALAR_BIT)>>}
            /\ \A k \in DOMAIN doubles :
                  /\ doubles[k].i = max_bits - k
                  /\ GateName(builder, doubles[k].gate) = "CurveDblGate"
                  /\ doubles[k].gate
                        = Max({adds[l].gate : l \in {n \in DOMAIN adds :
                                                       adds[n].i = doubles[k].i}}) + 1
            /\ \A j \in DOMAIN parts :
                  LET steps == {k \in DOMAIN adds : adds[k].j = j}
                  IN  last.result.scalars[j]
                         = IF steps = {} THEN builder.constant_wires[ZERO]
                           ELSE Wire(adds[Max(steps)].gate, CurveAddGate_WIRE_SCALAR_ACC_NEW)

(* Two parts, of two bits and of one bit: three add gates and two          *)
(* doubling gates.                                                         *)
C15_Witness ==
    /\ last.op = "curve_msm"
    /\ panicked = ""
    /\ Len(last.x) = 2
    /\ last.x[1].scalar_bits = <<VirtualTarget(0), VirtualTarget(1)>>
    /\ last.x[2].scalar_bits = <<VirtualTarget(1)>>
    /\ [k \in DOMAIN last.ghost.adds |-> <<last.ghost.adds[k].i, last.ghost.adds[k].j>>]
          = <<<<1, 1>>, <<0, 1>>, <<0, 2>>>>
    /\ Len(last.ghost.doubles) = 2
    /\ last.result.scalars[1]
          = Wire(last.ghost.adds[2].gate, CurveAddGate_WIRE_SCALAR_ACC_NEW)

----------------------------------------------------------------------------
(* Every gadget, on targets and points the builder returned, then build(). *)

MaxGadgetGates == 16
MaxGadgetVirtuals == 1
MaxGadgetInputs == 1
MaxGadgetOutputs == 3
MaxGadgetParts == 2
MaxGadgetBits == 2
MaxSplitBits == 1

SplitBinary(gates, virtuals, bits) ==
    /\ \E x \in KnownTargets(builder), n \in 0 .. bits :
          Returned("split_binary", x, None, n, split_binary(builder, x, n), gates, virtuals)
    /\ UNCHANGED Others

CurveDouble(gates, virtuals) ==
    /\ \E p \in KnownPoints(builder) :
          Returned("curve_double", p, None, 0, curve_double(builder, p), gates, virtuals)
    /\ UNCHANGED Others

CurveAdd(gates, virtuals) ==
    /\ \E p_1, p_2 \in KnownPoints(builder) :
          Returned("curve_add", p_1, p_2, 0, curve_add(builder, p_1, p_2), gates, virtuals)
    /\ UNCHANGED Others

CurveSub(gates, virtuals) ==
    /\ \E p_1, p_2 \in KnownPoints(builder) :
          Returned("curve_sub", p_1, p_2, 0, curve_sub(builder, p_1, p_2), gates, virtuals)
    /\ UNCHANGED Others

(* The sponge with inputs and outputs up to the given numbers. *)
RescueSpongeUpTo(gates, virtuals, inputs, outputs) ==
    /\ GateCount(builder, "RescueStepAGate") = 0
    /\ \E input_list \in SeqsUpTo(KnownTargets(builder), inputs),
          num_outputs \in 0 .. outputs :
          Returned("rescue_sponge", input_list, None, num_outputs,
                   rescue_sponge(builder, input_list, num_outputs), gates, virtuals)
    /\ UNCHANGED Others

(* The call before this one started in a builder without gates: a builder *)
(* takes at most two calls that add gates.                                 *)
SecondAtMost == num_gates(last.before) = 0

(* The gadget calls.  A call that leaves the builder as it was records     *)
(* nothing, and is left out.                                               *)
NextGadgets ==
    \/ SecondAtMost /\ AddVirtualTarget(MaxGadgetGates, MaxGadgetVirtuals)
    \/ num_gates(builder) = 0 /\ ConstantWire(MaxGadgetGates, MaxGadgetVirtuals)
    \/ SecondAtMost /\ Add(MaxGadgetGates, MaxGadgetVirtuals)
    \/ SecondAtMost /\ Sub(MaxGadgetGates, MaxGadgetVirtuals)
    \/ SecondAtMost /\ Mul(MaxGadgetGates, MaxGadgetVirtuals)
    \/ SecondAtMost /\ Inv(MaxGadgetGates, MaxGadgetVirtuals + 1)
    \/ /\ SecondAtMost
       /\ SplitBinary(MaxGadgetGates, MaxGadgetVirtuals + MaxSplitBits, MaxSplitBits)
       /\ builder'.virtual_target_index > builder.virtual_target_index
    \/ /\ SecondAtMost
       /\ ConstantAffinePoint(MaxGadgetGates, MaxGadgetVirtuals + MaxSplitBits)
       /\ builder' # builder
    \/ SecondAtMost /\ CurveDouble(MaxGadgetGates, MaxGadgetVirtuals + MaxSplitBits)
    \/ SecondAtMost /\ CurveAdd(MaxGadgetGates, MaxGadgetVirtuals + MaxSplitBits)
    \/ SecondAtMost /\ CurveSub(MaxGadgetGates, MaxGadgetVirtuals + MaxSplitBits)
    \/ /\ SecondAtMost
       /\ RescueSpongeUpTo(MaxGadgetGates, MaxGadgetVirtuals + MaxSplitBits,
                           MaxGadgetInputs, MaxGadgetOutputs)
       /\ builder' # builder
    \/ /\ SecondAtMost
       /\ CurveMsm(MaxGadgetGates, MaxGadgetVirtuals + MaxSplitBits, MaxGadgetParts,
                   MaxGadgetBits)
    \/ Build

SpecGadgets == Init /\ [][NextGadgets]_vars

(* C16: after gadget calls on targets the builder returned, every target   *)
(* of a recorded copy constraint is registered when build() runs, and      *)
(* build() completes without a lookup failure.                             *)
C16_CopiesRegistered ==
    /\ panicked \in {"", "Empty MSM"}
    /\ UnregisteredCopies(builder) = {}
    /\ last.op = "build" => Built

(* build() after a multiplication that routed the accumulator to the row   *)
(* of a gate it had not emitted yet, in a builder that had gates before.   *)
C16_Witness ==
    /\ Built
    /\ GateCount(builder, "CurveDblGate") > 0
    /\ \E i \in DOMAIN builder.copy_constraints :
          LET target == builder.copy_constraints[i][2]
          IN  /\ target[3] = CurveAddGate_WIRE_GROUP_ACC_X
              /\ GateName(builder, target[2]) = "CurveAddGate"
              /\ target[2] > 3
              /\ \A j \in 1 .. (i - 1) :
                    builder.copy_constraints[j][2][2] < target[2]
    /\ GateCount(builder, "ArithmeticGate") > 0

====
